---------------------------- MODULE Spec2Model ----------------------------
(***************************************************************************)
(* A model of quint-viz, the ITF trace visualizer: the trace               *)
(* interpretation functions of itf.ts, the file loader of DropZone.tsx and *)
(* the state and derived values of App.tsx.                                *)
(*                                                                         *)
(* JavaScript strings are sequences of one-character strings, so that      *)
(* split("::") and Number() work on the characters.  JavaScript values     *)
(* (the cells of a state, the fields of a parsed file) are records with a  *)
(* field t naming the kind of value.                                       *)
(***************************************************************************)
EXTENDS Integers, Sequences, FiniteSets, TLC

VARIABLES
    trace,          \* App: useState<ItfTrace | null>
    fileName,       \* App: useState("")
    selectedVars,   \* App: useState<Set<string>>
    thresholds,     \* App: useState<Threshold[]>
    markedVariant,  \* App: useState<string | null>
    title,          \* App: useState("")
    crashed,        \* App: a render of App threw (classifyVars, buildSeries)
    dragging,       \* DropZone: useState(false)
    error,          \* DropZone: useState<string | null>
    reads,          \* the FileReaders whose readAsText has not completed
    lastRead,       \* what the last reader.onload did with its file
    args,           \* the arguments of a call of one function of itf.ts
    ret             \* and what the call returned

appVars == <<trace, fileName, selectedVars, thresholds, markedVariant, title,
             crashed, dragging, error, reads, lastRead>>
callVars == <<args, ret>>
vars == <<appVars, callVars>>

---------------------------------------------------------------------------
(* Bounds of the model. *)

MaxNameLen == 7     \* characters of a name given to stripPrefix
MaxTags == 5        \* entries of a tag sequence given to findVariantChanges
MaxVars == 2        \* names of a variable list
MaxStates == 2      \* states of a trace given to buildSeries
MaxReads == 2       \* file reads in flight at once
MaxThresholds == 1  \* thresholds on the chart

---------------------------------------------------------------------------
(* JavaScript values. *)

JUndef == [t |-> "undefined"]
JNull == [t |-> "null"]
NaN == [t |-> "NaN"]
JNum(n) == [t |-> "number", v |-> n]
JStr(s) == [t |-> "string", s |-> s]
JObj(f) == [t |-> "object", f |-> f]
JArr(a) == [t |-> "array", a |-> a]

\* typeof: null and an array are "object", NaN is a "number".
typeof(value) ==
    CASE value.t \in {"null", "array"} -> "object"
      [] value.t = "NaN" -> "number"
      [] OTHER -> value.t

\* key in value, for a value whose typeof is "object" and that is not null.
HasKey(value, key) == value.t = "object" /\ key \in DOMAIN value.f

\* !value
Falsy(value) ==
    \/ value.t \in {"undefined", "null", "NaN"}
    \/ value = JNum(0)
    \/ value = JStr(<<>>)

\* a ?? b
Coalesce(a, b) == IF a.t \in {"undefined", "null"} THEN b ELSE a

\* state[v] on an object that maps names to cells.
Get(state, v) == IF v \in DOMAIN state THEN state[v] ELSE JUndef

Last(s) == s[Len(s)]

---------------------------------------------------------------------------
(* Number(string): the empty string is 0, decimal digits with an optional  *)
(* minus sign are that integer, anything else over the modelled alphabet   *)
(* is NaN.                                                                 *)

DigitChars == {"0", "1", "2", "3", "4", "5", "6", "7", "8", "9"}

DigitValue(c) ==
    CASE c = "0" -> 0 [] c = "1" -> 1 [] c = "2" -> 2 [] c = "3" -> 3
      [] c = "4" -> 4 [] c = "5" -> 5 [] c = "6" -> 6 [] c = "7" -> 7
      [] c = "8" -> 8 [] c = "9" -> 9

RECURSIVE DecimalValue(_)
DecimalValue(s) ==
    IF s = <<>> THEN 0
    ELSE 10 * DecimalValue(SubSeq(s, 1, Len(s) - 1)) + DigitValue(Last(s))

IsDecimal(s) == s # <<>> /\ \A i \in 1..Len(s) : s[i] \in DigitChars

Number(s) ==
    IF s = <<>> THEN JNum(0)
    ELSE IF IsDecimal(s) THEN JNum(DecimalValue(s))
    ELSE IF s[1] = "-" /\ IsDecimal(Tail(s)) THEN JNum(0 - DecimalValue(Tail(s)))
    ELSE NaN

---------------------------------------------------------------------------
(* itf.ts *)

\* name.split("::"): the parts between the occurrences of "::", found from
\* the left; p is where the current part starts, q the place being looked at.
RECURSIVE SplitFrom(_, _, _)
SplitFrom(name, p, q) ==
    IF q > Len(name) THEN <<SubSeq(name, p, Len(name))>>
    ELSE IF q < Len(name) /\ name[q] = ":" /\ name[q + 1] = ":"
         THEN <<SubSeq(name, p, q - 1)>> \o SplitFrom(name, q + 2, q + 2)
    ELSE SplitFrom(name, p, q + 1)

split(name) == SplitFrom(name, 1, 1)

stripPrefixFirst(name) == split(name)[1]

stripPrefix(name) ==
    LET parts == split(name)
    IN  parts[Len(parts)]

extractNumeric(value) ==
    IF typeof(value) = "number" THEN value
    ELSE IF /\ typeof(value) = "object"
            /\ value # JNull
            /\ HasKey(value, "#bigint")
            /\ typeof(value.f["#bigint"]) = "string"
         THEN Number(value.f["#bigint"].s)
    ELSE JNull

extractVariantTag(value) ==
    IF /\ typeof(value) = "object"
       /\ value # JNull
       /\ HasKey(value, "tag")
       /\ typeof(value.f["tag"]) = "string"
    THEN value.f["tag"]
    ELSE JNull


\* The loop of classifyVars from the k-th name on; acc is {numeric, variant}.
RECURSIVE classifyLoop(_, _, _, _)
classifyLoop(state, varNames, k, acc) ==
    IF k > Len(varNames) THEN acc
    ELSE LET v == varNames[k]
             val == Get(state, v)
         IN  classifyLoop(state, varNames, k + 1,
                 IF extractNumeric(val) # JNull
                 THEN [acc EXCEPT !.numeric = Append(@, v)]
                 ELSE IF extractVariantTag(val) # JNull
                 THEN [acc EXCEPT !.variant = Append(@, v)]
                 ELSE acc)

\* classifyVars with the else of "else if" dropped.
RECURSIVE classifyLoopNoElse(_, _, _, _)
classifyLoopNoElse(state, varNames, k, acc) ==
    IF k > Len(varNames) THEN acc
    ELSE LET v == varNames[k]
             val == Get(state, v)
             n == IF extractNumeric(val) # JNull
                  THEN [acc EXCEPT !.numeric = Append(@, v)] ELSE acc
         IN  classifyLoopNoElse(state, varNames, k + 1,
                 IF extractVariantTag(val) # JNull
                 THEN [n EXCEPT !.variant = Append(@, v)] ELSE n)

classifyVarsNoElse(state, varNames) ==
    classifyLoopNoElse(state, varNames, 1, [numeric |-> <<>>, variant |-> <<>>])

classifyVars(state, varNames) ==
    classifyLoop(state, varNames, 1, [numeric |-> <<>>, variant |-> <<>>])

\* The inner loop of buildSeries: one state's sample pushed for each name.
RECURSIVE pushState(_, _, _, _)
pushState(series, state, varNames, k) ==
    IF k > Len(varNames) THEN series
    ELSE LET v == varNames[k]
             sample == Coalesce(extractNumeric(Get(state, v)), JNum(0))
         IN  pushState([series EXCEPT ![stripPrefix(v)] = Append(@, sample)],
                       state, varNames, k + 1)

\* The outer loop of buildSeries, from the i-th state on.
RECURSIVE pushStates(_, _, _, _)
pushStates(series, states, varNames, i) ==
    IF i > Len(states) THEN series
    ELSE pushStates(pushState(series, states[i], varNames, 1),
                    states, varNames, i + 1)

\* series: Record<string, number[]>, a function from short names.
buildSeries(states, varNames) ==
    LET shorts == {stripPrefix(varNames[k]) : k \in 1..Len(varNames)}
        series == [s \in shorts |-> <<>>]
    IN  pushStates(series, states, varNames, 1)

buildVariantSeries(states, varName) ==
    [i \in 1..Len(states) |-> extractVariantTag(Get(states[i], varName))]

\* tags[i] with the index i of the source, which counts from 0.
At(tags, i) == tags[i + 1]

\* The loop of findVariantChanges from index i on.
RECURSIVE changesFrom(_, _)
changesFrom(tags, i) ==
    IF ~(i < Len(tags)) THEN <<>>
    ELSE (IF At(tags, i) # At(tags, i - 1)
          THEN <<[step |-> i,
                  fromTag |-> Coalesce(At(tags, i - 1), JStr(<<"?">>)).s,
                  toTag |-> Coalesce(At(tags, i), JStr(<<"?">>)).s]>>
          ELSE <<>>) \o changesFrom(tags, i + 1)

\* findVariantChanges reporting the index after the new value.
findVariantChangesShifted(tags) ==
    LET found == changesFrom(tags, 1)
    IN  [k \in 1..Len(found) |-> [found[k] EXCEPT !.step = @ + 1]]

\* findVariantChanges comparing only entries that are both tags.
findVariantChangesNoAbsent(tags) ==
    LET found == changesFrom(tags, 1)
    IN  SelectSeq(found, LAMBDA c :
            At(tags, c.step) # JNull /\ At(tags, c.step - 1) # JNull)

findVariantChanges(tags) == changesFrom(tags, 1)

\* varNames.find(v => stripPrefix(v) === shortName), from the k-th name on.
RECURSIVE findFrom(_, _, _)
findFrom(varNames, shortName, k) ==
    IF k > Len(varNames) THEN JUndef
    ELSE IF stripPrefix(varNames[k]) = shortName THEN JStr(varNames[k])
    ELSE findFrom(varNames, shortName, k + 1)

\* findVariantVar with findLast for find.
findVariantVarLast(varNames, shortName) ==
    findFrom([k \in 1..Len(varNames) |-> varNames[Len(varNames) + 1 - k]],
             shortName, 1)

findVariantVar(varNames, shortName) == findFrom(varNames, shortName, 1)

---------------------------------------------------------------------------
(* The state of App and DropZone after the first render. *)

NotCalled == [t |-> "not called"]
NoRead == [t |-> "none"]

AppInit ==
    /\ trace = JNull
    /\ fileName = ""
    /\ selectedVars = {}
    /\ thresholds = <<>>
    /\ markedVariant = JNull
    /\ title = ""
    /\ crashed = FALSE
    /\ dragging = FALSE
    /\ error = JNull
    /\ reads = <<>>
    /\ lastRead = NoRead

SeqsUpTo(S, n) == UNION {[1..k -> S] : k \in 0..n}

Max(S) == CHOOSE m \in S : \A n \in S : n <= m
Min(S) == CHOOSE m \in S : \A n \in S : m <= n

---------------------------------------------------------------------------
(* stripPrefix applied to every name of up to MaxNameLen characters. *)

NameChars == {"a", "b", ":"}

InitStrip ==
    /\ AppInit
    /\ args \in [name : SeqsUpTo(NameChars, MaxNameLen)]
    /\ ret = NotCalled

CallStripPrefix ==
    /\ ret = NotCalled
    /\ ret' = JStr(stripPrefix(args.name))
    /\ UNCHANGED <<appVars, args>>

SpecStrip == InitStrip /\ [][CallStripPrefix]_vars

\* The places of a name where "::" stands.
SeparatorPlaces(name) ==
    {q \in 1..(Len(name) - 1) : name[q] = ":" /\ name[q + 1] = ":"}

\* The ways to read a name as segments separated by "::": P holds the places
\* of the separators, which do not overlap, and every ':' of the name is part
\* of a separator, so that the segments are free of it.
Segmentations(name) ==
    {P \in SUBSET SeparatorPlaces(name) :
        /\ \A q1, q2 \in P : q1 # q2 => (q1 - q2 >= 2 \/ q2 - q1 >= 2)
        /\ {q \in 1..Len(name) : name[q] = ":"} = P \cup {q + 1 : q \in P}}

LastSegment(name, P) ==
    IF P = {} THEN name ELSE SubSeq(name, Max(P) + 2, Len(name))

\* C8: stripPrefix is idempotent; of a name made of k segments separated by
\* "::" it returns the last segment, for every k >= 1; a name with no "::" in
\* it is returned unchanged.
C8_StripPrefixLastSegment ==
    ret # NotCalled =>
        /\ stripPrefix(ret.s) = ret.s
        /\ \A P \in Segmentations(args.name) : ret.s = LastSegment(args.name, P)
        /\ SeparatorPlaces(args.name) = {} => ret.s = args.name

\* A name of three non-empty segments has been normalized.
C8_Witness ==
    /\ ret # NotCalled
    /\ args.name = <<"a", ":", ":", "b", ":", ":", "a">>
    /\ ret.s = <<"a">>

---------------------------------------------------------------------------
(* findVariantVar applied to every list of up to MaxVars declared names.   *)

nx == <<"x">>
ny == <<"y">>
nz == <<"z">>
mx == <<"m", ":", ":", "x">>
my == <<"m", ":", ":", "y">>
nnx == <<"n", ":", ":", "x">>

DeclaredNames == {nx, mx, nnx, my}
ShortNames == {nx, ny, nz}

InitLookup ==
    /\ AppInit
    /\ args \in [varNames : SeqsUpTo(DeclaredNames, MaxVars), shortName : ShortNames]
    /\ ret = NotCalled

CallFindVariantVar ==
    /\ ret = NotCalled
    /\ ret' = findVariantVar(args.varNames, args.shortName)
    /\ UNCHANGED <<appVars, args>>

SpecLookup == InitLookup /\ [][CallFindVariantVar]_vars

\* C7: findVariantVar returns the first declared name, in list order, whose
\* stripPrefix is the short name, and undefined exactly when there is none.
C7_LookupFirstMatch ==
    ret # NotCalled =>
        LET matches == {k \in 1..Len(args.varNames) :
                            stripPrefix(args.varNames[k]) = args.shortName}
        IN  /\ (ret = JUndef) <=> (matches = {})
            /\ matches # {} => ret = JStr(args.varNames[Min(matches)])

\* Two declared names normalize to the short name looked up.
C7_Witness ==
    /\ ret # NotCalled
    /\ args.varNames = <<mx, nnx>>
    /\ args.shortName = nx
    /\ ret = JStr(mx)

---------------------------------------------------------------------------
(* findVariantChanges applied to every sequence of up to MaxTags entries,  *)
(* each a tag or null.                                                     *)

tagA == JStr(<<"A">>)
tagB == JStr(<<"B">>)
tagQ == JStr(<<"?">>)

TagEntries == {JNull, tagA, tagB, tagQ}

InitChanges ==
    /\ AppInit
    /\ args \in [tags : SeqsUpTo(TagEntries, MaxTags)]
    /\ ret = NotCalled

CallFindVariantChanges ==
    /\ ret = NotCalled
    /\ ret' = JArr(findVariantChanges(args.tags))
    /\ UNCHANGED <<appVars, args>>

SpecChanges == InitChanges /\ [][CallFindVariantChanges]_vars

\* C2 as stated: no event at step 0, at most N-1 events for a tag sequence of
\* length N, and every step in the half-open interval [1, N-1).
C2_StepsHalfOpen ==
    ret # NotCalled =>
        LET N == Len(args.tags)
        IN  /\ \A k \in 1..Len(ret.a) : ret.a[k].step # 0
            /\ Len(ret.a) <= N - 1
            /\ \A k \in 1..Len(ret.a) : 1 <= ret.a[k].step /\ ret.a[k].step < N - 1

\* C2 as amended: no event at step 0, at most N-1 events (none when N = 0),
\* and every step in the closed interval [1, N-1].
C2_StepsClosed ==
    ret # NotCalled =>
        LET N == Len(args.tags)
        IN  /\ \A k \in 1..Len(ret.a) : ret.a[k].step # 0
            /\ Len(ret.a) <= (IF N = 0 THEN 0 ELSE N - 1)
            /\ \A k \in 1..Len(ret.a) : 1 <= ret.a[k].step /\ ret.a[k].step <= N - 1

\* Every entry differs from the one before: N-1 events, the last at step N-1.
C2_Witness ==
    /\ ret # NotCalled
    /\ args.tags = <<tagA, tagB, JNull, tagA>>
    /\ Len(ret.a) = 3
    /\ ret.a[3].step = 3

\* C3: the events are in strictly increasing order of step, with exactly one
\* for each index i in 1..N-1 whose entry differs from the entry at i-1 (null
\* differs from every tag) and none for another index; an event's tags are
\* the entries at step-1 and step where those are tags; [A,A,B,B,A] gives
\* {2, A -> B} and {4, B -> A}.
C3_OneEventPerChange ==
    ret # NotCalled =>
        LET tags == args.tags
            changed == {i \in 1..(Len(tags) - 1) : At(tags, i) # At(tags, i - 1)}
        IN  /\ \A k \in 1..(Len(ret.a) - 1) : ret.a[k].step < ret.a[k + 1].step
            /\ {ret.a[k].step : k \in 1..Len(ret.a)} = changed
            /\ Len(ret.a) = Cardinality(changed)
            /\ \A k \in 1..Len(ret.a) :
                  /\ At(tags, ret.a[k].step - 1) # JNull
                        => ret.a[k].fromTag = At(tags, ret.a[k].step - 1).s
                  /\ At(tags, ret.a[k].step) # JNull
                        => ret.a[k].toTag = At(tags, ret.a[k].step).s
            /\ tags = <<tagA, tagA, tagB, tagB, tagA>> =>
                  ret.a = <<[step |-> 2, fromTag |-> <<"A">>, toTag |-> <<"B">>],
                          [step |-> 4, fromTag |-> <<"B">>, toTag |-> <<"A">>]>>

\* The sequence of the example was scanned and gave two events.
C3_Witness ==
    /\ ret # NotCalled
    /\ args.tags = <<tagA, tagA, tagB, tagB, tagA>>
    /\ Len(ret.a) = 2

\* C12: every event of findVariantChanges has a fromTag that differs from
\* its toTag, for every sequence of tags and absent entries, the tag "?"
\* among the tags.
C12_FromDiffersFromTo ==
    ret # NotCalled =>
        \A k \in 1..Len(ret.a) : ret.a[k].fromTag # ret.a[k].toTag

---------------------------------------------------------------------------
(* The cells of a state, and the states over a set of names: a name is     *)
(* mapped to a cell or is absent from the state.                           *)

cNum == JNum(5)
cBig == JObj("#bigint" :> JStr(<<"4", "2">>))
cBigNaN == JObj("#bigint" :> JStr(<<"a">>))
cTagA == JObj("tag" :> tagA)
cTagB == JObj("tag" :> tagB)
cBoth == JObj("#bigint" :> JStr(<<"4", "2">>) @@ "tag" :> tagA)
cTagNum == JObj("tag" :> JNum(5))
cBigNumTag == JObj("#bigint" :> JNum(5) @@ "tag" :> tagA)
cStr == JStr(<<"s">>)

StatesOver(names, cells) == UNION {[D -> cells] : D \in SUBSET names}

VarNames == {nx, mx, my}

---------------------------------------------------------------------------
(* classifyVars applied to every first state and every list of up to       *)
(* MaxVars names.                                                          *)

ClassifyCells ==
    {cNum, cBig, cBigNaN, cTagA, cBoth, cTagNum, cBigNumTag, JNull, cStr}

InitClassify ==
    /\ AppInit
    /\ args \in [state : StatesOver(VarNames, ClassifyCells),
                 varNames : SeqsUpTo(VarNames, MaxVars)]
    /\ ret = NotCalled

CallClassifyVars ==
    /\ ret = NotCalled
    /\ ret' = classifyVars(args.state, args.varNames)
    /\ UNCHANGED <<appVars, args>>

SpecClassify == InitClassify /\ [][CallClassifyVars]_vars

Range(s) == {s[k] : k \in 1..Len(s)}

\* C4: the numeric group is the sub-list of the names whose first-state cell
\* has a numeric extraction, the variant group the sub-list of the names
\* whose cell has none but has a tag extraction, both in input order, and no
\* name is in both groups.
C4_ClassifyPartition ==
    ret # NotCalled =>
        LET cell(v) == Get(args.state, v)
            isNumeric(v) == extractNumeric(cell(v)) # JNull
            isVariant(v) == ~isNumeric(v) /\ extractVariantTag(cell(v)) # JNull
        IN  /\ ret.numeric = SelectSeq(args.varNames, isNumeric)
            /\ ret.variant = SelectSeq(args.varNames, isVariant)
            /\ Range(ret.numeric) \cap Range(ret.variant) = {}

\* A cell with a '#bigint' string and a 'tag' string was classified, beside
\* a tag cell.
C4_Witness ==
    /\ ret # NotCalled
    /\ args.varNames = <<mx, my>>
    /\ Get(args.state, mx) = cBoth
    /\ Get(args.state, my) = cTagA
    /\ ret = [numeric |-> <<mx>>, variant |-> <<my>>]

---------------------------------------------------------------------------
(* buildSeries applied to every list of up to MaxStates states and every   *)
(* list of up to MaxVars names that names no variable twice.               *)

SeriesCells == {cNum, cBig, cBigNaN, cTagA}

DistinctSeqsUpTo(S, n) ==
    {s \in SeqsUpTo(S, n) : \A j, k \in 1..Len(s) : j # k => s[j] # s[k]}

InitSeries ==
    /\ AppInit
    /\ args \in [states : SeqsUpTo(StatesOver(VarNames, SeriesCells), MaxStates),
                 varNames : DistinctSeqsUpTo(VarNames, MaxVars)]
    /\ ret = NotCalled

CallBuildSeries ==
    /\ ret = NotCalled
    /\ ret' = JObj(buildSeries(args.states, args.varNames))
    /\ UNCHANGED <<appVars, args>>

SpecSeries == InitSeries /\ [][CallBuildSeries]_vars

\* The per-state samples of one variable: its numeric extraction, or 0.
Samples(states, v) ==
    [i \in 1..Len(states) |->
        IF extractNumeric(Get(states[i], v)) = JNull THEN JNum(0)
        ELSE extractNumeric(Get(states[i], v))]

\* C1: the sequence stored for each variable passed, under its short name,
\* has as many entries as there are states.
C1_SeriesLength ==
    ret # NotCalled =>
        \A k \in 1..Len(args.varNames) :
            Len(ret.f[stripPrefix(args.varNames[k])]) = Len(args.states)

\* C5: entry i of the series of a variable passed is the numeric extraction
\* of state i's cell for it, and 0 where that extraction fails.
C5_SeriesEntries ==
    ret # NotCalled =>
        \A k \in 1..Len(args.varNames) : \A i \in 1..Len(args.states) :
            LET v == args.varNames[k]
            IN  ret.f[stripPrefix(v)][i] = Samples(args.states, v)[i]

\* C6: when two names passed have the same short name, the sequence stored
\* under it is the per-state series of the later of them only.
C6_LastWriteWins ==
    ret # NotCalled =>
        \A j, k \in 1..Len(args.varNames) :
            (j < k /\ stripPrefix(args.varNames[j]) = stripPrefix(args.varNames[k]))
                => ret.f[stripPrefix(args.varNames[k])]
                       = Samples(args.states, args.varNames[k])

---------------------------------------------------------------------------
(* DropZone.tsx and App.tsx.  A file is its name and its text; the text is *)
(* either no JSON at all or the value JSON.parse returns for it.  A trace  *)
(* is the parsed object, with its fields "vars" and "states" as they are   *)
(* in the file.                                                            *)

SyntaxError == [t |-> "syntax error"]

\* value.key, for a value that is neither null nor undefined.
GetField(value, key) ==
    IF value.t = "object" /\ key \in DOMAIN value.f THEN value.f[key] ELSE JUndef

\* value.length
length(value) ==
    IF value.t = "array" THEN JNum(Len(value.a))
    ELSE IF value.t = "string" THEN JNum(Len(value.s))
    ELSE JUndef

Trace(varsField, statesField) == JObj("vars" :> varsField @@ "states" :> statesField)

\* classifyVars(t.states[0], t.vars) throws a TypeError: for..of over a vars
\* that is no array, or state[v] on the undefined t.states[0].
classifyVarsThrows(t) ==
    LET tvars == GetField(t, "vars")
        tstates == GetField(t, "states")
    IN  \/ tvars.t # "array"
        \/ /\ Len(tvars.a) > 0
           /\ ~(tstates.t = "array" /\ Len(tstates.a) > 0)

\* t.states[0] and t.vars of a trace whose fields are arrays.
firstState(t) ==
    IF Len(GetField(t, "states").a) > 0 THEN GetField(t, "states").a[1] ELSE JUndef

declared(t) == GetField(t, "vars").a

\* numeric.map(stripPrefix) and variant.map(stripPrefix)
numericShort(t) ==
    LET numeric == classifyVars(firstState(t), declared(t)).numeric
    IN  [k \in 1..Len(numeric) |-> stripPrefix(numeric[k])]

variantShort(t) ==
    LET variant == classifyVars(firstState(t), declared(t)).variant
    IN  [k \in 1..Len(variant) |-> stripPrefix(variant[k])]

\* A render of App with this trace throws: the classifyVars of the useMemo
\* hooks, or buildSeries' for..of over states that are no array.
renderThrows(t) ==
    \/ classifyVarsThrows(t)
    \/ GetField(t, "states").t # "array"

DropZoneMounted == trace = JNull /\ ~crashed
ControlsMounted == trace # JNull /\ ~crashed

\* parseFile: the error is cleared and the read of the file starts.  The
\* reads in flight are kept in the order of their readAsText calls.  A read
\* is stale once the DropZone that started it has been unmounted, and
\* overtaken once onLoad has been called for a file submitted after it.
parseFile(file) ==
    /\ error' = JNull
    /\ reads' = Append(reads, [file |-> file, stale |-> FALSE, overtaken |-> FALSE])

HandleDrop(file) ==
    /\ DropZoneMounted
    /\ Len(reads) < MaxReads
    /\ dragging' = FALSE
    /\ parseFile(file)
    /\ UNCHANGED <<trace, fileName, selectedVars, thresholds, markedVariant,
                   title, crashed, lastRead, callVars>>

HandleChange(file) ==
    /\ DropZoneMounted
    /\ Len(reads) < MaxReads
    /\ parseFile(file)
    /\ UNCHANGED <<trace, fileName, selectedVars, thresholds, markedVariant,
                   title, crashed, dragging, lastRead, callVars>>

DragOver ==
    /\ DropZoneMounted
    /\ dragging' = TRUE
    /\ UNCHANGED <<trace, fileName, selectedVars, thresholds, markedVariant,
                   title, crashed, error, reads, lastRead, callVars>>

DragLeave ==
    /\ DropZoneMounted
    /\ dragging' = FALSE
    /\ UNCHANGED <<trace, fileName, selectedVars, thresholds, markedVariant,
                   title, crashed, error, reads, lastRead, callVars>>

\* A handleLoad that leaves the marked variant of the trace before.
handleLoadKeepsMark(t, name) ==
    /\ trace' = t
    /\ fileName' = name
    /\ title' = name
    /\ thresholds' = <<>>
    /\ UNCHANGED markedVariant
    /\ selectedVars' = IF classifyVarsThrows(t) THEN selectedVars
                       ELSE Range(numericShort(t))

\* handleLoad: the setters before classifyVars take effect also when it throws.
handleLoad(t, name) ==
    /\ trace' = t
    /\ fileName' = name
    /\ title' = name
    /\ thresholds' = <<>>
    /\ markedVariant' = JNull
    /\ selectedVars' = IF classifyVarsThrows(t) THEN selectedVars
                       ELSE Range(numericShort(t))

\* What reader.onload does with the text of a file: "failed" (JSON.parse or
\* trace.vars of null throws), "invalid", "empty", or "load" (onLoad is called).
onloadOutcome(text) ==
    IF text = SyntaxError \/ text = JNull THEN "failed"
    ELSE IF Falsy(GetField(text, "vars")) \/ Falsy(GetField(text, "states")) THEN "invalid"
    ELSE IF length(GetField(text, "states")) = JNum(0) THEN "empty"
    ELSE "load"

\* The message reader.onload gives setError, or null when it sets none.
onloadError(text) ==
    LET outcome == onloadOutcome(text)
    IN  IF outcome = "failed" \/ (outcome = "load" /\ classifyVarsThrows(text))
        THEN JStr("Failed to parse JSON file.")
        ELSE IF outcome = "invalid"
        THEN JStr("Invalid ITF file: missing 'vars' or 'states' field.")
        ELSE IF outcome = "empty" THEN JStr("Trace has no states.")
        ELSE JNull

RemoveAt(s, i) == SubSeq(s, 1, i - 1) \o SubSeq(s, i + 1, Len(s))

\* reader.onload of the i-th read in flight.  After a crash of App its
\* setters change nothing; a loaded trace unmounts the DropZone, whose state
\* is lost and whose other reads are stale from then on.
onload(i) ==
    LET r == reads[i]
        text == r.file.text
        outcome == onloadOutcome(text)
        err == onloadError(text)
        loads == outcome = "load" /\ ~crashed
        rest == RemoveAt(reads, i)
    IN  /\ lastRead' = [file |-> r.file.name, text |-> text,
                        onLoad |-> outcome = "load", error |-> err,
                        overtaken |-> r.overtaken]
        /\ IF loads
           THEN /\ handleLoad(text, r.file.name)
                /\ crashed' = renderThrows(text)
                /\ dragging' = FALSE
                /\ error' = JNull
                /\ reads' = [k \in 1..Len(rest) |->
                                [rest[k] EXCEPT !.stale = TRUE,
                                                !.overtaken = @ \/ k < i]]
           ELSE /\ error' = IF r.stale \/ crashed \/ err = JNull THEN error ELSE err
                /\ reads' = rest
                /\ UNCHANGED <<trace, fileName, selectedVars, thresholds,
                               markedVariant, title, crashed, dragging>>
        /\ UNCHANGED callVars

ReadComplete(i) ==
    /\ i \in 1..Len(reads)
    /\ onload(i)

\* The values App derives with useMemo.
numericVars == IF trace = JNull THEN <<>> ELSE numericShort(trace)

variantVars == IF trace = JNull THEN <<>> ELSE variantShort(trace)

series ==
    IF trace = JNull THEN <<>>
    ELSE buildSeries(GetField(trace, "states").a,
                     classifyVars(firstState(trace), declared(trace)).numeric)

steps ==
    IF trace = JNull THEN <<>>
    ELSE [k \in 1..Len(GetField(trace, "states").a) |-> k - 1]

variantChanges ==
    IF trace = JNull \/ Falsy(markedVariant) THEN <<>>
    ELSE LET fullVar == findVariantVar(declared(trace), markedVariant.s)
         IN  IF Falsy(fullVar) THEN <<>>
             ELSE findVariantChanges(
                      buildVariantSeries(GetField(trace, "states").a, fullVar.s))

markLabel ==
    IF trace = JNull \/ Falsy(markedVariant) THEN <<>>
    ELSE IF Falsy(findVariantVar(declared(trace), markedVariant.s)) THEN <<>>
    ELSE markedVariant.s

\* A checkbox of Controls, one for each numeric short name.
HandleToggleVar(name) ==
    /\ ControlsMounted
    /\ name \in Range(numericVars)
    /\ selectedVars' = IF name \in selectedVars THEN selectedVars \ {name}
                       ELSE selectedVars \cup {name}
    /\ UNCHANGED <<trace, fileName, thresholds, markedVariant, title, crashed,
                   dragging, error, reads, lastRead, callVars>>

\* The select of Controls: the option None, whose value is "", and one
\* option for each variant short name; onMarkedVariantChange(value || null).
MarkVariant(value) ==
    /\ ControlsMounted
    /\ value \in Range(variantVars) \cup {<<>>}
    /\ markedVariant' = IF Falsy(JStr(value)) THEN JNull ELSE JStr(value)
    /\ UNCHANGED <<trace, fileName, selectedVars, thresholds, title, crashed,
                   dragging, error, reads, lastRead, callVars>>

\* string.trim(), of the blank.
RECURSIVE trim(_)
trim(str) ==
    IF str # <<>> /\ str[1] = " " THEN trim(Tail(str))
    ELSE IF str # <<>> /\ Last(str) = " " THEN trim(SubSeq(str, 1, Len(str) - 1))
    ELSE str

\* thresholdInput.match(/^(.+)=(.+)$/): the first group is greedy, so the
\* text is cut at its last "=" that leaves both sides non-empty.
matchThreshold(input) ==
    LET cuts == {q \in 2..(Len(input) - 1) : input[q] = "="}
    IN  IF cuts = {} THEN JNull
        ELSE JArr(<<SubSeq(input, 1, Max(cuts) - 1),
                    SubSeq(input, Max(cuts) + 1, Len(input))>>)

\* Controls.handleAddThreshold, and the onAddThreshold of App.
HandleAddThreshold(input) ==
    /\ ControlsMounted
    /\ Len(thresholds) < MaxThresholds
    /\ LET match == matchThreshold(input)
       IN  /\ match # JNull
           /\ Number(trim(match.a[2])) # NaN
           /\ thresholds' = Append(thresholds,
                  [label |-> trim(match.a[1]), value |-> Number(trim(match.a[2]))])
    /\ UNCHANGED <<trace, fileName, selectedVars, markedVariant, title, crashed,
                   dragging, error, reads, lastRead, callVars>>

RemoveThreshold(i) ==
    /\ ControlsMounted
    /\ i \in 1..Len(thresholds)
    /\ thresholds' = RemoveAt(thresholds, i)
    /\ UNCHANGED <<trace, fileName, selectedVars, markedVariant, title, crashed,
                   dragging, error, reads, lastRead, callVars>>

TitleChange(text) ==
    /\ ControlsMounted
    /\ title' = text
    /\ UNCHANGED <<trace, fileName, selectedVars, thresholds, markedVariant,
                   crashed, dragging, error, reads, lastRead, callVars>>

\* handleReset; the DropZone is mounted anew, with its initial state.
HandleReset ==
    /\ ControlsMounted
    /\ trace' = JNull
    /\ fileName' = ""
    /\ title' = ""
    /\ thresholds' = <<>>
    /\ markedVariant' = JNull
    /\ selectedVars' = {}
    /\ dragging' = FALSE
    /\ error' = JNull
    /\ UNCHANGED <<crashed, reads, lastRead, callVars>>

---------------------------------------------------------------------------
(* The application, with the files a user may drop on it.                  *)

mode == <<"m", "o", "d", "e">>
level == <<"l", "e", "v", "e", "l">>
Idle == JStr(<<"I", "d", "l", "e">>)
Delivering == JStr(<<"D", "e", "l", "i", "v", "e", "r", "i", "n", "g">>)

\* mode = Idle, Idle, Delivering and level = 10, 8, 8
exampleTrace ==
    Trace(JArr(<<mode, level>>),
          JArr(<<mode :> JObj("tag" :> Idle) @@ level :> JNum(10),
                 mode :> JObj("tag" :> Idle) @@ level :> JNum(8),
                 mode :> JObj("tag" :> Delivering) @@ level :> JNum(8)>>))

\* x is numeric, m::x and m::y are variants
collidingTrace ==
    Trace(JArr(<<nx, mx, my>>),
          JArr(<<nx :> cNum @@ mx :> cTagA @@ my :> cTagB,
                 nx :> cBig @@ mx :> cTagB>>))

Files ==
    {[name |-> "bad.json", text |-> SyntaxError],
     [name |-> "null.json", text |-> JNull],
     [name |-> "novars.json", text |-> JObj("states" :> JArr(<<nx :> cNum>>))],
     [name |-> "nostates.json", text |-> JObj("vars" :> JArr(<<nx>>))],
     [name |-> "empty.json", text |-> Trace(JArr(<<nx>>), JArr(<<>>))],
     [name |-> "number.json", text |-> Trace(JArr(<<nx>>), JNum(5))],
     [name |-> "pump.itf.json", text |-> exampleTrace],
     [name |-> "two.itf.json", text |-> collidingTrace]}

ThresholdInputs ==
    {<<"h", "=", " ", "9">>, <<"h", "=", "a">>, <<"=", "9">>, <<"l", "=", "-", "1">>}

Titles == {"", "chart"}

\* The short names of the variables of the files.
ShortUniverse == {stripPrefix(v) : v \in VarNames \cup {mode, level}}

Init ==
    /\ AppInit
    /\ args = JNull
    /\ ret = NotCalled

Next ==
    \/ \E file \in Files : HandleDrop(file)
    \/ \E file \in Files : HandleChange(file)
    \/ DragOver
    \/ DragLeave
    \/ \E i \in 1..MaxReads : ReadComplete(i)
    \/ \E name \in ShortUniverse : HandleToggleVar(name)
    \/ \E value \in ShortUniverse \cup {<<>>} : MarkVariant(value)
    \/ \E input \in ThresholdInputs : HandleAddThreshold(input)
    \/ \E i \in 1..MaxThresholds : RemoveThreshold(i)
    \/ \E text \in Titles : TitleChange(text)
    \/ HandleReset

Spec == Init /\ [][Next]_vars

\* The text of the file of the last read is a trace with a variable list
\* and a non-empty state list.
HasVarList(text) == GetField(text, "vars").t = "array"
HasStates(text) ==
    GetField(text, "states").t = "array" /\ Len(GetField(text, "states").a) > 0

\* C9: for every file read, exactly one of two outcomes: the parsed trace has
\* a variable list and a non-empty state list and onLoad is called with it,
\* or an error message is set and onLoad is not called; a trace without a
\* variable list or without states never reaches handleLoad.
C9_LoadOrError ==
    lastRead # NoRead =>
        LET text == lastRead.text
            loaded == /\ HasVarList(text)
                      /\ HasStates(text)
                      /\ lastRead.onLoad
            refused == lastRead.error # JNull /\ ~lastRead.onLoad
        IN  /\ loaded # refused
            /\ lastRead.onLoad => (HasVarList(text) /\ HasStates(text))

---------------------------------------------------------------------------
(* The application loading one trace out of every trace that declares up  *)
(* to MaxVars of the names x and m::x, which have the same short name, and *)
(* has up to MaxStates states, or the example of the pump, and the user    *)
(* marking a variant.                                                      *)

TraceNames == {nx, mx}
TraceCells == {cNum, cTagA, cTagB}

GeneratedTraces ==
    UNION {{Trace(JArr(names), JArr(states)) :
                states \in SeqsUpTo(StatesOver(Range(names), TraceCells), MaxStates)
                               \ {<<>>}} :
           names \in DistinctSeqsUpTo(TraceNames, MaxVars)}

TraceFiles ==
    {[name |-> "trace.itf.json", text |-> t] : t \in GeneratedTraces \cup {exampleTrace}}

\* One file is chosen in the file input, with no read in flight.
LoadFile ==
    /\ reads = <<>>
    /\ DropZoneMounted
    /\ \E file \in TraceFiles : HandleChange(file)

NextTraces ==
    \/ LoadFile
    \/ \E i \in 1..MaxReads : ReadComplete(i)
    \/ \E value \in ShortUniverse \cup {<<>>} : MarkVariant(value)

SpecTraces == Init /\ [][NextTraces]_vars

\* C10 as stated: the change events handed to the chart are those of the tag
\* sequence of the variable of the variant group that was marked by its
\* short name.
C10_EventsOfMarkedVariable ==
    (ControlsMounted /\ markedVariant # JNull) =>
        \A v \in Range(classifyVars(firstState(trace), declared(trace)).variant) :
            stripPrefix(v) = markedVariant.s =>
                variantChanges = findVariantChanges(
                    [i \in 1..Len(GetField(trace, "states").a) |->
                        extractVariantTag(Get(GetField(trace, "states").a[i], v))])

\* C10 as amended: the change events handed to the chart are those of the
\* tag sequence of the first declared variable whose short name is the
\* marked one; in the example, marking mode gives {2, Idle -> Delivering} and
\* the series is {level: [10, 8, 8]}.
C10_EventsOfFirstMatch ==
    (ControlsMounted /\ markedVariant # JNull) =>
        LET names == declared(trace)
            states == GetField(trace, "states").a
            first == names[Min({k \in 1..Len(names) :
                                    stripPrefix(names[k]) = markedVariant.s})]
        IN  /\ variantChanges = findVariantChanges(
                    [i \in 1..Len(states) |-> extractVariantTag(Get(states[i], first))])
            /\ (trace = exampleTrace /\ markedVariant = JStr(mode)) =>
                  /\ variantChanges = <<[step |-> 2, fromTag |-> Idle.s,
                                         toTag |-> Delivering.s]>>
                  /\ series = (level :> <<JNum(10), JNum(8), JNum(8)>>)

\* The example was loaded and mode marked.
C10_Witness ==
    /\ ControlsMounted
    /\ trace = exampleTrace
    /\ markedVariant = JStr(mode)
    /\ Len(variantChanges) = 1

---------------------------------------------------------------------------
(* The selection, the mark and the thresholds of App, under the operations *)
(* of the DropZone and of Controls.                                        *)

\* A read has completed and reader.onload has called onLoad in this step.
LoadStep == Len(reads') < Len(reads) /\ lastRead'.onLoad /\ ~crashed /\ ~crashed'

\* The displayed trace has been dropped in this step.
ResetStep == trace # JNull /\ trace' = JNull

\* C11: while App is rendered, the selected variables are short names of the
\* numeric group of the current trace and the marked variant is none or a
\* short name of its variant group; a step that loads a trace leaves all
\* numeric short names selected, no mark and no threshold, and a step that
\* resets leaves the selection, the mark and the thresholds empty.
C11_SelectionWithinTrace ==
    /\ [](~crashed =>
            /\ selectedVars \subseteq Range(numericVars)
            /\ \/ markedVariant = JNull
               \/ markedVariant.s \in Range(variantVars))
    /\ [][/\ LoadStep => /\ selectedVars' = Range(numericShort(trace'))
                          /\ markedVariant' = JNull
                          /\ thresholds' = <<>>
          /\ ResetStep => /\ selectedVars' = {}
                           /\ markedVariant' = JNull
                           /\ thresholds' = <<>>]_vars

\* A trace with a numeric and a variant variable is displayed, its numeric
\* variable toggled off, a variant marked and a threshold added.
C11_Witness ==
    /\ ControlsMounted
    /\ lastRead # NoRead
    /\ lastRead.onLoad
    /\ Range(numericVars) # {}
    /\ selectedVars = {}
    /\ markedVariant # JNull
    /\ thresholds # <<>>

---------------------------------------------------------------------------
(* Files submitted to the DropZone while reads are in flight.              *)

\* C13: the completion of a read never changes the trace, the file name,
\* the title or the selection of a rendered App once onLoad has been called
\* for a file that was submitted after the file of this read; of two files
\* submitted before either read completes, App therefore ends with the one
\* submitted last, in whichever order the reads complete.
C13_LastSubmittedWins ==
    [][(Len(reads') < Len(reads) /\ lastRead'.overtaken /\ ~crashed') =>
           UNCHANGED <<trace, fileName, title, selectedVars>>]_vars

=============================================================================
